---- MODULE Spec2Model ----
(***************************************************************************)
(* Model of digital_modulation_simulation.py: simulate_ber(), the Monte    *)
(* Carlo BER sweep over BPSK, QPSK and 16-QAM on an AWGN channel.          *)
(*                                                                         *)
(* Complex numbers.  Every constellation point of the program is an        *)
(* integer pair divided by a square root (1, sqrt(2), sqrt(10)), so a      *)
(* complex value is the record [re, im, d2] standing for                   *)
(* (re + j*im)/sqrt(d2).  Sign tests and comparisons of distances between  *)
(* values of equal d2 are then exact integer computations.  The Gaussian   *)
(* noise is a nondeterministic value of the same form.                     *)
(* In IEEE double arithmetic x/sqrt(10)*sqrt(10) = x for x in {-3,-1,1,3}  *)
(* (and x*(1/sqrt(10))*sqrt(10) = x as well), so the product               *)
(* closest_point * sqrt(10) of line 83 is the integer point again:         *)
(* TimesSqrt models it as the exact rescaling.                             *)
(*                                                                         *)
(* Steps.  One pass of the scheme loop (lines 28-88) is one action, Trial, *)
(* with the noise as its input; DrawBits is the head of the Eb/N0 loop,    *)
(* TheoreticalBer its tail.  The dicts mapping and demapping and the array *)
(* constellation get the same value whenever they are assigned, and are    *)
(* definitions.  An exception is the position "raised".                    *)
(***************************************************************************)
EXTENDS Integers, Sequences, FiniteSets, TLC

\* ------------------------------------------------------------- bounds
\* Largest NUM_BITS of a sweep over several Eb/N0 values.
SweepMaxBits == 4

\* Number of Eb/N0 values of that sweep (the first values of arange(0, 15, 1)).
SweepPoints == 2

\* Largest NUM_BITS of a run with a single Eb/N0 value.
TrialMaxBits == 8

\* Received values of the 16-QAM decision have coordinates in -GridMax..GridMax
\* (in units of 1/sqrt(10)).
GridMax == 6

\* ------------------------------------------------------------- constants
MODULATION_SCHEMES == <<"BPSK", "QPSK", "16-QAM">>

\* np.arange(0, 15, 1), cut to its first n values
EbN0Range(n) == [i \in 1..n |-> i - 1]

\* ------------------------------------------------------------- complex values
Cx(re, im, d2) == [re |-> re, im |-> im, d2 |-> d2]

\* z / sqrt(d): the divisor's square is recorded
DivSqrt(z, d) == Cx(z.re, z.im, z.d2 * d)

\* z * sqrt(d), for a z that was divided by sqrt(d)
TimesSqrt(z, d) == Cx(z.re, z.im, z.d2 \div d)

\* a + b for values of the same scale
Plus(a, b) == Cx(a.re + b.re, a.im + b.im, a.d2)

\* |a - b|^2 * d2, for values of the same scale: np.abs is its square root
Dist2(a, b) == (a.re - b.re) * (a.re - b.re) + (a.im - b.im) * (a.im - b.im)

\* ------------------------------------------------------------- sequences
Bits(n) == [1..n -> {0, 1}]

\* a[0::2] and a[1::2]
Even(a) == [i \in 1..((Len(a) + 1) \div 2) |-> a[2 * i - 1]]
Odd(a) == [i \in 1..(Len(a) \div 2) |-> a[2 * i]]

\* numpy broadcasting of two one-dimensional shapes: the common length, or -1
\* when the shapes do not broadcast (ValueError)
Broadcast(la, lb) ==
  IF la = lb THEN la ELSE IF la = 1 THEN lb ELSE IF lb = 1 THEN la ELSE -1

\* element i of a one-dimensional array broadcast to a longer shape
At(a, i) == IF Len(a) = 1 THEN a[1] ELSE a[i]

\* can a value of length lv be assigned to a slice of length ls
Assignable(lv, ls) == lv = ls \/ lv = 1

Ok(v) == [ok |-> TRUE, val |-> v]
Err == [ok |-> FALSE, val |-> <<>>]

\* ------------------------------------------------------------- modulation
\* line 32: 2 * transmitted_bits - 1, an integer array
BPSKSymbol(b) == Cx(2 * b - 1, 0, 1)

ModulateBPSK(bits) == Ok([i \in 1..Len(bits) |-> BPSKSymbol(bits[i])])

\* QPSKSymbol without the division by sqrt(2)
QPSKSymbolUnscaled(b0, b1) == Cx(1 - 2 * b0, 1 - 2 * b1, 1)

\* lines 37-38: (1 - 2*b0) + 1j*(1 - 2*b1), divided by sqrt(2)
QPSKSymbol(b0, b1) == DivSqrt(Cx(1 - 2 * b0, 1 - 2 * b1, 1), 2)

ModulateQPSK(bits) ==
  LET a == Even(bits)
      b == Odd(bits)
      n == Broadcast(Len(a), Len(b))
  IN  IF n < 0 THEN Err
      ELSE Ok([i \in 1..n |-> QPSKSymbol(At(a, i), At(b, i))])

\* mapping with (1,1,1,1) on the point of (1,1,0,1)
mappingRepeated ==
  << <<<<0,0,0,0>>, Cx(-3,-3,1)>>, <<<<0,0,0,1>>, Cx(-3,-1,1)>>,
     <<<<0,0,1,0>>, Cx(-3, 3,1)>>, <<<<0,0,1,1>>, Cx(-3, 1,1)>>,
     <<<<0,1,0,0>>, Cx(-1,-3,1)>>, <<<<0,1,0,1>>, Cx(-1,-1,1)>>,
     <<<<0,1,1,0>>, Cx(-1, 3,1)>>, <<<<0,1,1,1>>, Cx(-1, 1,1)>>,
     <<<<1,0,0,0>>, Cx( 3,-3,1)>>, <<<<1,0,0,1>>, Cx( 3,-1,1)>>,
     <<<<1,0,1,0>>, Cx( 3, 3,1)>>, <<<<1,0,1,1>>, Cx( 3, 1,1)>>,
     <<<<1,1,0,0>>, Cx( 1,-3,1)>>, <<<<1,1,0,1>>, Cx( 1,-1,1)>>,
     <<<<1,1,1,0>>, Cx( 1, 3,1)>>, <<<<1,1,1,1>>, Cx( 1,-1,1)>> >>

\* mapping with the real axis in natural binary order (10 -> 1, 11 -> 3)
mappingBinary ==
  << <<<<0,0,0,0>>, Cx(-3,-3,1)>>, <<<<0,0,0,1>>, Cx(-3,-1,1)>>,
     <<<<0,0,1,0>>, Cx(-3, 3,1)>>, <<<<0,0,1,1>>, Cx(-3, 1,1)>>,
     <<<<0,1,0,0>>, Cx(-1,-3,1)>>, <<<<0,1,0,1>>, Cx(-1,-1,1)>>,
     <<<<0,1,1,0>>, Cx(-1, 3,1)>>, <<<<0,1,1,1>>, Cx(-1, 1,1)>>,
     <<<<1,0,0,0>>, Cx( 1,-3,1)>>, <<<<1,0,0,1>>, Cx( 1,-1,1)>>,
     <<<<1,0,1,0>>, Cx( 1, 3,1)>>, <<<<1,0,1,1>>, Cx( 1, 1,1)>>,
     <<<<1,1,0,0>>, Cx( 3,-3,1)>>, <<<<1,1,0,1>>, Cx( 3,-1,1)>>,
     <<<<1,1,1,0>>, Cx( 3, 3,1)>>, <<<<1,1,1,1>>, Cx( 3, 1,1)>> >>

\* lines 42-47: the dict `mapping`, as its items in insertion order
mapping ==
  << <<<<0,0,0,0>>, Cx(-3,-3,1)>>, <<<<0,0,0,1>>, Cx(-3,-1,1)>>,
     <<<<0,0,1,0>>, Cx(-3, 3,1)>>, <<<<0,0,1,1>>, Cx(-3, 1,1)>>,
     <<<<0,1,0,0>>, Cx(-1,-3,1)>>, <<<<0,1,0,1>>, Cx(-1,-1,1)>>,
     <<<<0,1,1,0>>, Cx(-1, 3,1)>>, <<<<0,1,1,1>>, Cx(-1, 1,1)>>,
     <<<<1,0,0,0>>, Cx( 3,-3,1)>>, <<<<1,0,0,1>>, Cx( 3,-1,1)>>,
     <<<<1,0,1,0>>, Cx( 3, 3,1)>>, <<<<1,0,1,1>>, Cx( 3, 1,1)>>,
     <<<<1,1,0,0>>, Cx( 1,-3,1)>>, <<<<1,1,0,1>>, Cx( 1,-1,1)>>,
     <<<<1,1,1,0>>, Cx( 1, 3,1)>>, <<<<1,1,1,1>>, Cx( 1, 1,1)>> >>

\* dict operations on a sequence of <<key, value>> items
Keys(d) == {d[i][1] : i \in 1..Len(d)}
Values(d) == [i \in 1..Len(d) |-> d[i][2]]
Get(d, key) == d[CHOOSE i \in 1..Len(d) : d[i][1] = key][2]

\* d[key] = value: an existing key keeps its place, a new one is appended
Put(d, key, value) ==
  IF key \in Keys(d)
  THEN [i \in 1..Len(d) |-> IF d[i][1] = key THEN <<key, value>> ELSE d[i]]
  ELSE Append(d, <<key, value>>)

\* line 78: {v: k for k, v in mapping.items()}
RECURSIVE InvertFrom(_, _, _)
InvertFrom(d, i, acc) ==
  IF i > Len(d) THEN acc
  ELSE InvertFrom(d, i + 1, Put(acc, d[i][2], d[i][1]))

Invert(d) == InvertFrom(d, 1, <<>>)

demapping == Invert(mapping)

\* lines 48-50: reshape(-1, 4), look each row up, divide by sqrt(10)
Group(bits, i, k) == [j \in 1..k |-> bits[k * (i - 1) + j]]

Modulate16QAM(bits) ==
  IF Len(bits) % 4 # 0 THEN Err
  ELSE Ok([i \in 1..(Len(bits) \div 4) |->
             DivSqrt(Get(mapping, Group(bits, i, 4)), 10)])

\* ------------------------------------------------------------- demodulation
\* (np.real(s) < 0).astype(int), (np.imag(s) < 0).astype(int)
RealNeg(s) == IF s.re < 0 THEN 1 ELSE 0
ImagNeg(s) == IF s.im < 0 THEN 1 ELSE 0

\* line 67
DemodulateBPSK(rx) == Ok([i \in 1..Len(rx) |-> RealNeg(rx[i])])

\* DemodulateQPSK without the shape checks of the slice assignments: what
\* does not fit is dropped, what is missing is 0
DemodulateQPSKUnchecked(rx, n) ==
  LET L == Len(rx)
      sym(i) == IF i <= L THEN i ELSE L
  IN  Ok([p \in 1..n |->
            IF L = 0 THEN 0
            ELSE IF p % 2 = 1 THEN RealNeg(rx[sym((p + 1) \div 2)])
            ELSE ImagNeg(rx[sym(p \div 2)])])

\* lines 70-74: received_bits has the shape of transmitted_bits; the two slice
\* assignments raise when the shapes do not fit
DemodulateQPSK(rx, n) ==
  LET L == Len(rx)
  IN  IF ~Assignable(L, (n + 1) \div 2) \/ ~Assignable(L, n \div 2) THEN Err
      ELSE Ok([p \in 1..n |->
                 IF p % 2 = 1 THEN RealNeg(At(rx, (p + 1) \div 2))
                 ELSE ImagNeg(At(rx, p \div 2))])

\* line 77: np.array(list(mapping.values())) / np.sqrt(10)
constellation == [i \in 1..Len(mapping) |-> DivSqrt(Values(mapping)[i], 10)]

\* line 81: np.abs(s - constellation), as the squares of the distances
\* (scaled by d2, which all of them share)
Distances(s) == [i \in 1..Len(constellation) |-> Dist2(s, constellation[i])]

\* ArgMinFrom with the comparison turned round
RECURSIVE ArgMaxFrom(_, _, _, _)
ArgMaxFrom(d, n, i, best) ==
  IF i > n THEN best
  ELSE ArgMaxFrom(d, n, i + 1, IF d[i] > d[best] THEN i ELSE best)

\* line 82: np.argmin, the first index of the least value
RECURSIVE ArgMinFrom(_, _, _, _)
ArgMinFrom(d, n, i, best) ==
  IF i > n THEN best
  ELSE ArgMinFrom(d, n, i + 1, IF d[i] < d[best] THEN i ELSE best)

ArgMin(d) == ArgMinFrom(d, Len(d), 2, 1)

\* lines 81-83: the bit group of one received symbol
Decide16QAM(s) ==
  Get(demapping, TimesSqrt(constellation[ArgMin(Distances(s))], 10))

\* ExtendFrom with each bit group put in front of the earlier ones
RECURSIVE ExtendFront(_, _, _)
ExtendFront(rx, i, acc) ==
  IF i > Len(rx) THEN acc
  ELSE ExtendFront(rx, i + 1, Decide16QAM(rx[i]) \o acc)

\* lines 80-83: received_bits.extend(...) for each symbol in order
RECURSIVE ExtendFrom(_, _, _)
ExtendFrom(rx, i, acc) ==
  IF i > Len(rx) THEN acc
  ELSE ExtendFrom(rx, i + 1, acc \o Decide16QAM(rx[i]))

Demodulate16QAM(rx) == Ok(ExtendFrom(rx, 1, <<>>))

\* line 86: np.sum(transmitted_bits != received_bits)
NumErrors(tx, rcv) == Cardinality({p \in 1..Len(tx) : tx[p] # rcv[p]})

\* ------------------------------------------------------------- theory
\* lines 91-94: coef * erfc(sqrt(gain * 10^(dB/10))), kept as the term
Erfc(cn, cd, gn, gd, dB) ==
  [coef |-> <<cn, cd>>, gain |-> <<gn, gd>>, EbN0_dB |-> dB]

Theoretical(scheme, dB) ==
  IF scheme = "16-QAM" THEN Erfc(3, 8, 4, 10, dB) ELSE Erfc(1, 2, 1, 1, dB)

\* ------------------------------------------------------------- channel
\* Noise added to one symbol, in units of 1/sqrt(d2) of the scheme: one that
\* flips the real sign of a +1, and one that puts the real part on a decision
\* boundary and the imaginary part far below the constellation.
NoiseValues == {<<-2, 0>>, <<1, -9>>}

\* The noise of one trial on the symbols tx: zero on every symbol, or nonzero
\* on exactly one.
NoiseVectors(tx) ==
  {[i \in 1..Len(tx) |-> Cx(0, 0, tx[i].d2)]} \cup
  {[i \in 1..Len(tx) |->
      IF i = p THEN Cx(v[1], v[2], tx[i].d2) ELSE Cx(0, 0, tx[i].d2)] :
     p \in 1..Len(tx), v \in NoiseValues}

\* ------------------------------------------------------------- state
VARIABLES
  NUM_BITS,            \* line 6
  EbN0_dB_range,       \* line 7
  pc,                  \* position in simulate_ber
  pass,                \* index of the current Eb/N0 value in EbN0_dB_range
  EbN0_dB,             \* loop variable of line 18
  si,                  \* index of the current scheme in MODULATION_SCHEMES
  k,                   \* bits per symbol of the current scheme
  transmitted_bits,
  transmitted_symbols,
  noise,
  received_symbols,
  received_bits,
  ber_results,         \* line 15
  theoretical_ber      \* line 16

vars == <<NUM_BITS, EbN0_dB_range, pc, pass, EbN0_dB, si, k, transmitted_bits,
          transmitted_symbols, noise, received_symbols, received_bits,
          ber_results, theoretical_ber>>

config == <<NUM_BITS, EbN0_dB_range>>
results == <<ber_results, theoretical_ber>>

Schemes == {MODULATION_SCHEMES[i] : i \in 1..Len(MODULATION_SCHEMES)}
scheme == MODULATION_SCHEMES[si]

\* lines 15-16, before the first pass of the loop of line 18
Start(n, range) ==
  /\ NUM_BITS = n
  /\ EbN0_dB_range = range
  /\ pc = "pass"
  /\ pass = 1
  /\ EbN0_dB = -1
  /\ si = 1
  /\ k = 0
  /\ transmitted_bits = <<>>
  /\ transmitted_symbols = <<>>
  /\ noise = <<>>
  /\ received_symbols = <<>>
  /\ received_bits = <<>>
  /\ ber_results = [s \in Schemes |-> <<>>]
  /\ theoretical_ber = [s \in Schemes |-> <<>>]

\* a sweep over several Eb/N0 values
Init == \E n \in 1..SweepMaxBits : Start(n, EbN0Range(SweepPoints))

\* a run with one Eb/N0 value
InitTrial == \E n \in 1..TrialMaxBits : Start(n, EbN0Range(1))

\* lines 18-25: the next Eb/N0 value and its random bits
DrawBits ==
  /\ pc = "pass"
  /\ pass <= Len(EbN0_dB_range)
  /\ EbN0_dB' = EbN0_dB_range[pass]
  /\ \E bits \in Bits(NUM_BITS) : transmitted_bits' = bits
  /\ si' = 1
  /\ pc' = "trial"
  /\ UNCHANGED <<config, pass, k, transmitted_symbols, noise, received_symbols,
                 received_bits, results>>

\* lines 30, 34, 40
BitsPerSymbol(s) == CASE s = "BPSK" -> 1 [] s = "QPSK" -> 2 [] OTHER -> 4

\* lines 29-50
Modulate(s, bits) ==
  CASE s = "BPSK" -> ModulateBPSK(bits)
    [] s = "QPSK" -> ModulateQPSK(bits)
    [] OTHER -> Modulate16QAM(bits)

\* line 61
Receive(tx, nz) == [i \in 1..Len(tx) |-> Plus(tx[i], nz[i])]

\* lines 64-83; n is the length of transmitted_bits
Demodulate(s, rx, n) ==
  CASE s = "BPSK" -> DemodulateBPSK(rx)
    [] s = "QPSK" -> DemodulateQPSK(rx, n)
    [] OTHER -> Demodulate16QAM(rx)

\* an entry of ber_results: num_errors / NUM_BITS, with the Eb/N0 value it was
\* measured at
Ber(errors, n, dB) == [num_errors |-> errors, of |-> n, EbN0_dB |-> dB]

\* AppendBer inserting at the front
PrependBer(res, s, ber) == [res EXCEPT ![s] = <<ber>> \o @]

\* line 88: ber_results[scheme].append(ber)
AppendBer(res, s, ber) == [res EXCEPT ![s] = Append(@, ber)]

\* An exception leaves simulate_ber: nothing more is recorded.
Raise ==
  /\ pc' = "raised"
  /\ UNCHANGED <<si, results>>

\* lines 28-88, one pass of the loop of line 27 on the bits `bits`: modulation,
\* channel, demodulation and the BER of one scheme
TrialOn(bits) ==
  /\ pc = "trial"
  /\ transmitted_bits' = bits
  /\ k' = BitsPerSymbol(scheme)
  /\ IF ~Modulate(scheme, bits).ok
     THEN /\ Raise
          /\ UNCHANGED <<transmitted_symbols, noise, received_symbols, received_bits>>
     ELSE /\ transmitted_symbols' = Modulate(scheme, bits).val
          /\ \E nz \in NoiseVectors(transmitted_symbols') : noise' = nz
          /\ received_symbols' = Receive(transmitted_symbols', noise')
          /\ received_bits' =
               Demodulate(scheme, received_symbols', Len(bits)).val
          /\ IF ~Demodulate(scheme, received_symbols', Len(bits)).ok
             THEN Raise
             ELSE /\ ber_results' =
                       AppendBer(ber_results, scheme,
                                 Ber(NumErrors(bits, received_bits'), NUM_BITS, EbN0_dB))
                  /\ IF si < Len(MODULATION_SCHEMES)
                     THEN si' = si + 1 /\ pc' = "trial"
                     ELSE si' = si /\ pc' = "theory"
                  /\ UNCHANGED theoretical_ber
  /\ UNCHANGED <<config, pass, EbN0_dB>>

\* Trial with the bits drawn again for each scheme
TrialFreshBits == \E bits \in Bits(NUM_BITS) : TrialOn(bits)

Trial == TrialOn(transmitted_bits)

\* lines 91-94, and the step of the loop of line 18
TheoreticalBer ==
  /\ pc = "theory"
  /\ theoretical_ber' =
       [s \in Schemes |-> Append(theoretical_ber[s], Theoretical(s, EbN0_dB))]
  /\ pass' = pass + 1
  /\ pc' = "pass"
  /\ UNCHANGED <<config, EbN0_dB, si, k, transmitted_bits, transmitted_symbols,
                 noise, received_symbols, received_bits, ber_results>>

\* line 96
Return ==
  /\ pc = "pass"
  /\ pass > Len(EbN0_dB_range)
  /\ pc' = "returned"
  /\ UNCHANGED <<config, pass, EbN0_dB, si, k, transmitted_bits,
                 transmitted_symbols, noise, received_symbols, received_bits,
                 results>>

Next ==
  \/ DrawBits
  \/ Trial
  \/ TheoreticalBer
  \/ Return

Spec == Init /\ [][Next]_vars

SpecTrial == InitTrial /\ [][Next]_vars

\* ------------------------------------------------------------- the decision alone
\* The 16-QAM demodulation of lines 75-83 as a function of the received value:
\* one received symbol anywhere on the grid, whatever was sent.
Grid == (0 - GridMax)..GridMax

InitDecide ==
  /\ NUM_BITS = 4
  /\ EbN0_dB_range = EbN0Range(1)
  /\ pc = "demodulate"
  /\ pass = 1
  /\ EbN0_dB = 0
  /\ si = 3
  /\ k = 4
  /\ transmitted_bits = <<>>
  /\ transmitted_symbols = <<>>
  /\ noise = <<>>
  /\ \E a \in Grid, b \in Grid : received_symbols = <<Cx(a, b, 10)>>
  /\ received_bits = <<>>
  /\ ber_results = [s \in Schemes |-> <<>>]
  /\ theoretical_ber = [s \in Schemes |-> <<>>]

\* lines 75-83
Decide ==
  /\ pc = "demodulate"
  /\ received_bits' = Demodulate(scheme, received_symbols, NUM_BITS).val
  /\ pc' = "decided"
  /\ UNCHANGED <<config, pass, EbN0_dB, si, k, transmitted_bits,
                 transmitted_symbols, noise, received_symbols, results>>

SpecDecide == InitDecide /\ [][Decide]_vars

\* ------------------------------------------------------------- properties
\* The trial of scheme s in the current pass has just been recorded: the
\* sequences of the state are that trial's.
JustRan(s) ==
  /\ pc \in {"trial", "theory"}
  /\ Len(ber_results[s]) = pass
  /\ k = BitsPerSymbol(s)

NoNoise == \A i \in 1..Len(noise) : noise[i].re = 0 /\ noise[i].im = 0

\* the constellation point of one k-bit group g under scheme s
SymbolOf(s, g) == Modulate(s, g).val[1]

\* the k-bit groups of scheme s
Groups(s) == Bits(BitsPerSymbol(s))

\* the decision rule of scheme s on one received symbol
DecisionOf(s, z) ==
  CASE s = "BPSK" -> <<RealNeg(z)>>
    [] s = "QPSK" -> <<RealNeg(z), ImagNeg(z)>>
    [] OTHER -> Decide16QAM(z)

RECURSIVE SumEnergy(_, _)
SumEnergy(s, G) ==
  IF G = {} THEN 0
  ELSE LET g == CHOOSE x \in G : TRUE
           z == SymbolOf(s, g)
       IN  z.re * z.re + z.im * z.im + SumEnergy(s, G \ {g})

Hamming(g, h) == Cardinality({j \in DOMAIN g : g[j] # h[j]})

\* C1: with zero noise on every symbol, the demodulated bits of every scheme's
\* trial are exactly the transmitted bits.
C1_NoiselessRoundTrip ==
  \A s \in Schemes :
    (JustRan(s) /\ NoNoise) => received_bits = transmitted_bits

\* C2: the BPSK mapping sends bit 0 to +1 and bit 1 to -1, one symbol per bit,
\* in order.
C2_BPSKMapping ==
  JustRan("BPSK") =>
    /\ Len(transmitted_symbols) = Len(transmitted_bits)
    /\ \A i \in 1..Len(transmitted_bits) :
         transmitted_symbols[i] =
           IF transmitted_bits[i] = 0 THEN Cx(1, 0, 1) ELSE Cx(-1, 0, 1)

\* C3: every scheme's symbol map is a bijection of the 2^k bit groups onto 2^k
\* distinct points (two symbols of a trial are equal exactly when their bit
\* groups are), and the reverse table of the 16-QAM demapping has 16 entries
\* and inverts the forward table.
C3_Bijection ==
  \A s \in Schemes :
    JustRan(s) =>
      /\ \A i, j \in 1..Len(transmitted_symbols) :
           (transmitted_symbols[i] = transmitted_symbols[j])
             <=> (Group(transmitted_bits, i, k) = Group(transmitted_bits, j, k))
      /\ Cardinality({SymbolOf(s, g) : g \in Groups(s)}) = Cardinality(Groups(s))
      /\ s = "16-QAM" =>
           /\ Keys(mapping) = Groups(s)
           /\ Len(mapping) = 16
           /\ Len(demapping) = 16
           /\ \A i \in 1..Len(mapping) :
                /\ mapping[i][2] \in Keys(demapping)
                /\ Get(demapping, mapping[i][2]) = mapping[i][1]

C3_Witness ==
  /\ JustRan("16-QAM")
  /\ Len(transmitted_symbols) = 2
  /\ transmitted_symbols[1] # transmitted_symbols[2]

\* C4: for every scheme the squared magnitudes of the un-normalized points sum
\* to (number of points) * (divisor squared), the divisor being the one applied
\* to the transmitted symbols: the mean energy of the constellation is 1.
C4_UnitEnergy ==
  \A s \in Schemes :
    (JustRan(s) /\ Len(transmitted_symbols) > 0) =>
      /\ \A g \in Groups(s) : SymbolOf(s, g).d2 = transmitted_symbols[1].d2
      /\ SumEnergy(s, Groups(s)) = Cardinality(Groups(s)) * transmitted_symbols[1].d2

C4_Witness ==
  /\ JustRan("QPSK")
  /\ Len(transmitted_symbols) = 4
  /\ transmitted_symbols[1].d2 = 2

\* C5: for every received value the 16-QAM decision is defined and is the bit
\* group of a constellation point at least as close to the received value as
\* each of the 16 points.
C5_MinimumDistance ==
  pc = "decided" =>
    /\ Len(received_bits) = 4
    /\ \E i \in 1..Len(mapping) :
         /\ mapping[i][1] = received_bits
         /\ \A j \in 1..Len(constellation) :
              Dist2(received_symbols[1], constellation[i])
                <= Dist2(received_symbols[1], constellation[j])

\* a received value far outside the constellation
C5_Witness ==
  /\ pc = "decided"
  /\ received_symbols[1].re >= 6
  /\ received_symbols[1].im <= -6
  /\ received_bits = <<1, 0, 0, 0>>

\* C6: after every trial the recovered sequence has the length of the
\* transmitted one, and its bit group i is the decision on received symbol i.
C6_LengthAndOrder ==
  \A s \in Schemes :
    JustRan(s) =>
      /\ Len(received_bits) = Len(transmitted_bits)
      /\ Len(received_symbols) * k = Len(received_bits)
      /\ \A i \in 1..Len(received_symbols) :
           Group(received_bits, i, k) = DecisionOf(s, received_symbols[i])

C6_Witness ==
  /\ JustRan("16-QAM")
  /\ Len(received_bits) = 8
  /\ ~NoNoise
  /\ Group(received_bits, 1, 4) # Group(received_bits, 2, 4)
  /\ received_bits # transmitted_bits

\* C7: a trial of a scheme whose bits-per-symbol does not divide the number of
\* bits ends in an error that leaves simulate_ber, and records no BER.
C7_IndivisibleRaises ==
  [][(pc = "trial" /\ NUM_BITS % BitsPerSymbol(scheme) # 0)
       => (pc' = "raised" /\ ber_results' = ber_results)]_vars

\* three bits under QPSK: the two slices broadcast to two symbols, and the
\* demodulation raises
C7_Witness ==
  /\ pc = "raised"
  /\ scheme = "QPSK"
  /\ NUM_BITS = 3
  /\ Len(received_symbols) = 2
  /\ ber_results["QPSK"] = <<>>

\* C8: between passes the simulated and theoretical sequences of every scheme
\* have one entry per finished pass, and at the return entry i of both is the
\* one of the i-th Eb/N0 value.
C8_SweepOrder ==
  /\ pc \in {"pass", "returned"} =>
       \A s \in Schemes :
         /\ Len(ber_results[s]) = pass - 1
         /\ Len(theoretical_ber[s]) = pass - 1
  /\ pc = "returned" =>
       \A s \in Schemes :
         /\ Len(ber_results[s]) = Len(EbN0_dB_range)
         /\ Len(theoretical_ber[s]) = Len(EbN0_dB_range)
         /\ \A i \in 1..Len(EbN0_dB_range) :
              /\ ber_results[s][i].EbN0_dB = EbN0_dB_range[i]
              /\ theoretical_ber[s][i] = Theoretical(s, EbN0_dB_range[i])

C8_Witness ==
  /\ pc = "returned"
  /\ Len(EbN0_dB_range) >= 2
  /\ Len(ber_results["16-QAM"]) = Len(EbN0_dB_range)

\* C9: the transmitted bits change only where a pass draws them, before its
\* first scheme; every trial leaves them as they are and counts its errors
\* against them.
C9_BitsDrawnOncePerPass ==
  [][/\ transmitted_bits' # transmitted_bits =>
          (pc = "pass" /\ pc' = "trial" /\ si' = 1)
     /\ (pc = "trial" /\ pc' # "raised") =>
          /\ transmitted_bits' = transmitted_bits
          /\ ber_results'[scheme][Len(ber_results'[scheme])].num_errors
               = NumErrors(transmitted_bits, received_bits')]_vars

\* the three schemes of a second pass have run
C9_Witness ==
  /\ pc = "theory"
  /\ pass = 2
  /\ \A s \in Schemes : Len(ber_results[s]) = 2

\* C10: in the 16-QAM table, as the decision of a received value uses it, the
\* first two bits fix the real coordinate and the last two the imaginary one,
\* and nearest neighbours on the grid differ in exactly one bit.
C10_SeparableGray ==
  pc = "decided" =>
    \A g, h \in Groups("16-QAM") :
      LET a == Get(mapping, g)
          b == Get(mapping, h)
      IN  /\ (g[1] = h[1] /\ g[2] = h[2]) => a.re = b.re
          /\ (g[3] = h[3] /\ g[4] = h[4]) => a.im = b.im
          /\ (a.re = b.re /\ (a.im - b.im = 2 \/ b.im - a.im = 2)) => Hamming(g, h) = 1
          /\ (a.im = b.im /\ (a.re - b.re = 2 \/ b.re - a.re = 2)) => Hamming(g, h) = 1

\* the point 1+3j received exactly: the table gives (1,1,1,0)
C10_Witness ==
  /\ pc = "decided"
  /\ received_symbols = <<Cx(1, 3, 10)>>
  /\ received_bits = <<1, 1, 1, 0>>

\* The rest of C1: the noiseless round trip of the schemes other than BPSK.
RoundTripQPSKand16QAM ==
  \A s \in Schemes \ {"BPSK"} :
    (JustRan(s) /\ NoNoise) => received_bits = transmitted_bits

====
